---- MODULE Spec2Model ----
(***************************************************************************)
(* Model of advanced-vector/vector.h: RawMemory<T> (an owned raw block)    *)
(* and Vector<T> (a RawMemory plus a count of constructed elements).       *)
(*                                                                         *)
(* The heap is a finite set of block addresses.  A block is a sequence of  *)
(* cells; a cell is Raw (no object lives there) or holds the value of a    *)
(* constructed T.  A moved-from T holds the value Moved; a value-          *)
(* initialized T holds Default, which is one of the ordinary values (as    *)
(* T() == 0 is for an arithmetic T).                                       *)
(*                                                                         *)
(* Every operation of Vector is one action.  An operation's fallible       *)
(* steps (operator new, constructors and assignments of T) are numbered    *)
(* in execution order; the input f of an action names the step that        *)
(* throws (0: none does).                                                  *)
(***************************************************************************)
EXTENDS Integers, Sequences, FiniteSets, TLC

\* ---------------------------------------------------------------- bounds
MaxCap == 4
NumBlocks == 3
MaxFault == MaxCap + 1
MaxAppends == 5
SrcSize == 2

\* ------------------------------------------------------------- constants
NullBlk == 0

Raw == "raw"
Moved == "moved"
Default == "x"
Vals == {"x", "y"}

Blocks == 1..NumBlocks
VecIds == {"a", "b"}
RawIds == {"r", "s"}

\* The element types: whether T's move constructor is noexcept and whether
\* T is copy-constructible.  (A move-only T with a noexcept move constructor
\* relocates exactly as the first type does.)
Types ==
    { [nothrow_move |-> TRUE,  copyable |-> TRUE],
      [nothrow_move |-> FALSE, copyable |-> TRUE],
      [nothrow_move |-> FALSE, copyable |-> FALSE] }

VARIABLES
    heap,      \* heap[b]: [alloc, cells] for each block address b
    vec,       \* vec[v]: [buffer_, capacity_, size_] of Vector v
    T,         \* the element type of both vectors
    aborted,   \* the process was terminated by the allocator
    dangling,  \* the Vectors whose block was released while they own it
    last,      \* the operation just performed, its inputs, outcome and effects
    hist,      \* the values appended to Vector a and the reallocations they took
    raw        \* raw[r]: [alive, buffer_, capacity_] of the RawMemory object r

vars == <<heap, vec, T, aborted, dangling, last, hist, raw>>

\* ------------------------------------------------------------------ heap
EmptyHeap == [b \in Blocks |-> [alloc |-> FALSE, cells |-> <<>>]]

\* n raw slots.
RECURSIVE RawCells(_)
RawCells(n) == IF n = 0 THEN <<>> ELSE Append(RawCells(n - 1), Raw)

FreeBlocks(h) == {b \in Blocks : ~h[b].alloc}

NewBlock(h) == CHOOSE b \in FreeBlocks(h) : \A c \in FreeBlocks(h) : b <= c

\* RawMemory::Allocate: nullptr for n = 0, else a fresh block of n raw slots.
AllocateBuf(h, n) == IF n = 0 THEN NullBlk ELSE NewBlock(h)

Allocate(h, n) ==
    IF n = 0 THEN h
    ELSE [h EXCEPT ![NewBlock(h)] = [alloc |-> TRUE, cells |-> RawCells(n)]]

\* RawMemory::Deallocate: operator delete of a block's start address.
Deallocate(h, b) ==
    IF b = NullBlk THEN h
    ELSE [h EXCEPT ![b] = [alloc |-> FALSE, cells |-> <<>>]]

CellsOf(h, b) == IF b = NullBlk THEN <<>> ELSE h[b].cells

LiveCount(c) == Cardinality({i \in 1..Len(c) : c[i] # Raw})

\* The record of one deallocation: the block, the offset of the address given
\* to operator delete within it, how many constructed elements the block
\* held, and whether a Vector still owned the block afterwards.
FreeEvent(h, b, off, owned) ==
    [blk |-> b, off |-> off, live |-> LiveCount(CellsOf(h, b)), owned |-> owned]

\* ------------------------------------------------- fault-step accounting
\* A phase of n fallible steps run with k steps left before the throw.
Fails(k, n) == k >= 1 /\ k <= n
After(k, n) == IF k > n THEN k - n ELSE 0

\* A relocation that always moves.
AlwaysMove(ty) == TRUE

\* Relocation strategy of Reserve / PushBack / Emplace (if constexpr).
RelocateByMove(ty) == ty.nothrow_move \/ ~ty.copyable

\* Number of fallible steps in relocating n elements.
RelocSteps(ty, n) == IF ty.nothrow_move THEN 0 ELSE n

\* ------------------------------------------------------- std algorithms
\* All take 0-based offsets, as the pointers of the source do.

\* std::uninitialized_copy_n(src + s0, n, dst + d0) with `done` elements
\* constructed.
RECURSIVE UninitCopy(_, _, _, _, _)
UninitCopy(src, s0, dst, d0, done) ==
    IF done = 0 THEN dst
    ELSE [UninitCopy(src, s0, dst, d0, done - 1)
             EXCEPT ![d0 + done] = src[s0 + done]]

\* std::uninitialized_move_n: the destination after `done` moves ...
UninitMoveDst(src, s0, dst, d0, done) == UninitCopy(src, s0, dst, d0, done)

\* ... and the source, whose first `done` elements are left moved-from.
RECURSIVE UninitMoveSrc(_, _, _)
UninitMoveSrc(src, s0, done) ==
    IF done = 0 THEN src
    ELSE [UninitMoveSrc(src, s0, done - 1) EXCEPT ![s0 + done] = Moved]

\* std::destroy_n(c + s0, n).
RECURSIVE DestroyN(_, _, _)
DestroyN(c, s0, n) ==
    IF n = 0 THEN c
    ELSE [DestroyN(c, s0, n - 1) EXCEPT ![s0 + n] = Raw]

\* std::copy(src, src + n, dst): copy assignment, `done` elements assigned.
RECURSIVE StdCopy(_, _, _)
StdCopy(src, dst, done) ==
    IF done = 0 THEN dst
    ELSE [StdCopy(src, dst, done - 1) EXCEPT ![done] = src[done]]

\* The shift done front to back (std::move on the overlapping ranges): an
\* element is overwritten before it is moved on.
RECURSIVE MoveForwardOverlap(_, _, _, _)
MoveForwardOverlap(c, lst, dlast, done) ==
    IF done = 0 THEN c
    ELSE MoveForwardOverlap([c EXCEPT ![dlast - done + 1] = c[lst - done + 1],
                                      ![lst - done + 1] = Moved],
                            lst, dlast, done - 1)

\* std::move_backward(c + first, c + lst, c + dlast) after `done` move
\* assignments: the k-th moves c[lst - k] into c[dlast - k].
RECURSIVE MoveBackward(_, _, _, _)
MoveBackward(c, lst, dlast, done) ==
    IF done = 0 THEN c
    ELSE LET p == MoveBackward(c, lst, dlast, done - 1)
         IN  [p EXCEPT ![dlast - done + 1] = p[lst - done + 1],
                       ![lst - done + 1] = Moved]

\* An Erase that forgets the shift.
StdMoveNone(c, first, dfirst, done) == c

\* std::move(c + first, c + lst, c + dfirst) after `done` move assignments:
\* the k-th moves c[first + k - 1] into c[dfirst + k - 1].
RECURSIVE StdMove(_, _, _, _)
StdMove(c, first, dfirst, done) ==
    IF done = 0 THEN c
    ELSE LET p == StdMove(c, first, dfirst, done - 1)
         IN  [p EXCEPT ![dfirst + done] = p[first + done],
                       ![first + done] = Moved]

\* ------------------------------------------------------------ relocation
\* The if-constexpr relocation of n elements from src + s0 into raw slots
\* dst + d0 (std::uninitialized_move_n or std::uninitialized_copy_n), with
\* k steps left before the throw.  On a throw the algorithm destroys what
\* it constructed in dst; a move leaves its sources moved-from.
Relocate(ty, src, s0, n, dst, d0, k) ==
    LET failed == Fails(k, RelocSteps(ty, n))
        done == IF failed THEN k - 1 ELSE n
    IN  [failed |-> failed,
         src |-> IF RelocateByMove(ty) THEN UninitMoveSrc(src, s0, done) ELSE src,
         dst |-> IF failed THEN dst
                 ELSE IF RelocateByMove(ty) THEN UninitMoveDst(src, s0, dst, d0, n)
                 ELSE UninitCopy(src, s0, dst, d0, n),
         rest |-> After(k, RelocSteps(ty, n))]

\* ------------------------------------------------------------- arguments
\* The argument of PushBack / Insert / Emplace is a value of T held outside
\* the Vector, or a reference to the Vector's own element i, written
\* Ref(i).  The constructor of the new element reads a reference when it
\* runs: ArgValue(v, c) is what it reads when the Vector's cells are c.
RefNames == <<"&0", "&1", "&2", "&3", "&4", "&5", "&6", "&7">>

Ref(i) == RefNames[i + 1]

IsRef(v) == \E k \in 1..Len(RefNames) : RefNames[k] = v

RefIndex(v) == CHOOSE i \in 0..(Len(RefNames) - 1) : RefNames[i + 1] = v

ArgValue(v, c) == IF IsRef(v) THEN c[RefIndex(v) + 1] ELSE v

\* A temporary built from the argument only when it is assigned into its
\* slot, after the shift.
NewItemAfterShift(v, c0, c2) == ArgValue(v, c2)

\* T new_item(args) of the middle path of Emplace: built as the first step,
\* when the cells are still c0; c2 are the cells once the tail is shifted.
NewItem(v, c0, c2) == ArgValue(v, c0)

\* Vector() = default.
DefaultVector == [buffer_ |-> NullBlk, capacity_ |-> 0, size_ |-> 0]

\* ------------------------------------------------------ operation results
\* What an operation returns to the action: the heap and the Vector after
\* it, which path it took, which step threw ("ok": none), the returned
\* position, the blocks allocated and the deallocations performed, and
\* what became of an invalid operator delete.
Res(h, vc, path, outcome, ret, allocs, frees, ub) ==
    [heap |-> h, vc |-> vc, path |-> path, outcome |-> outcome, ret |-> ret,
     allocs |-> allocs, frees |-> frees, ub |-> ub]

NoRet == -1

\* Growth by one slot at a time.
GrowByOne(sz) == sz + 1

\* size_ == 0 ? 1 : size_ * 2 (PushBack and Emplace).
GrowCap(sz) == IF sz = 0 THEN 1 ELSE sz * 2

\* ~RawMemory of the local new_data that owns block b.
DropBlock(h, b) == Deallocate(h, b)

\* ---------------------------------------------------------------- Reserve
\* The fallible steps of Reserve(new_capacity): none when capacity suffices,
\* else operator new and the relocation of size_ elements.
ReserveSteps(ty, vc, new_capacity) ==
    IF vc.capacity_ >= new_capacity THEN 0 ELSE 1 + RelocSteps(ty, vc.size_)

\* A Reserve that keeps the storage only when it is strictly larger than
\* asked for, and reallocates at equal capacity.
ReserveUnlessLarger(h, ty, vc, new_capacity, f) ==
    IF vc.capacity_ > new_capacity
    THEN Res(h, vc, "noop", "ok", NoRet, 0, <<>>, "none")
    ELSE IF f = 1 THEN Res(h, vc, "grow", "alloc", NoRet, 0, <<>>, "none")
    ELSE
    LET nb == NewBlock(h)
        h1 == Allocate(h, new_capacity)
        old == vc.buffer_
        c1 == UninitCopy(CellsOf(h1, old), 0, CellsOf(h1, nb), 0, vc.size_)
        h2 == IF new_capacity = 0 THEN h1 ELSE [h1 EXCEPT ![nb].cells = c1]
    IN  Res(DropBlock(h2, old),
            [vc EXCEPT !.buffer_ = AllocateBuf(h, new_capacity),
                       !.capacity_ = new_capacity],
            "grow", "ok", NoRet, 1,
            IF old = NullBlk THEN <<>> ELSE <<FreeEvent(h2, old, 0, FALSE)>>,
            "none")

Reserve(h, ty, vc, new_capacity, f) ==
    IF vc.capacity_ >= new_capacity
    THEN Res(h, vc, "noop", "ok", NoRet, 0, <<>>, "none")
    ELSE IF f = 1 THEN Res(h, vc, "grow", "alloc", NoRet, 0, <<>>, "none")
    ELSE
    LET nb == NewBlock(h)
        h1 == Allocate(h, new_capacity)
        old == vc.buffer_
        r == Relocate(ty, CellsOf(h1, old), 0, vc.size_, h1[nb].cells, 0, After(f, 1))
        h2 == IF old = NullBlk THEN h1
              ELSE [h1 EXCEPT ![old].cells =
                       IF r.failed THEN r.src ELSE DestroyN(r.src, 0, vc.size_)]
        h3 == [h2 EXCEPT ![nb].cells = r.dst]
    IN  IF r.failed THEN
            Res(DropBlock(h3, nb), vc, "grow", "reloc", NoRet, 1,
                <<FreeEvent(h3, nb, 0, FALSE)>>, "none")
        ELSE
            Res(DropBlock(h3, old),
                [vc EXCEPT !.buffer_ = nb, !.capacity_ = new_capacity],
                "grow", "ok", NoRet, 1,
                IF old = NullBlk THEN <<>> ELSE <<FreeEvent(h3, old, 0, FALSE)>>,
                "none")

\* A PushBack that grows by Reserve and only then constructs the new element
\* in place: a throwing constructor leaves the storage reallocated.
PushBackViaReserve(h, ty, vc, v, f) ==
    LET grows == vc.size_ >= vc.capacity_
        rs == IF grows THEN Reserve(h, ty, vc, GrowCap(vc.size_), f)
              ELSE Res(h, vc, "inplace", "ok", NoRet, 0, <<>>, "none")
        k == IF grows THEN After(f, ReserveSteps(ty, vc, GrowCap(vc.size_))) ELSE f
    IN  IF rs.outcome # "ok" THEN rs
        ELSE IF k = 1 THEN [rs EXCEPT !.outcome = "ctor"]
        ELSE [rs EXCEPT
                !.heap = [rs.heap EXCEPT ![rs.vc.buffer_].cells[vc.size_ + 1] = v],
                !.vc = [rs.vc EXCEPT !.size_ = vc.size_ + 1]]

\* --------------------------------------------------------------- PushBack
PushBack(h, ty, vc, v, f) ==
    IF vc.size_ >= vc.capacity_ THEN
        IF f = 1 THEN Res(h, vc, "grow", "alloc", NoRet, 0, <<>>, "none")
        ELSE
        LET nb == NewBlock(h)
            h1 == Allocate(h, GrowCap(vc.size_))
        IN  IF f = 2 THEN
                Res(DropBlock(h1, nb), vc, "grow", "ctor", NoRet, 1,
                    <<FreeEvent(h1, nb, 0, FALSE)>>, "none")
            ELSE
            LET new0 == [h1[nb].cells EXCEPT ![vc.size_ + 1] =
                            ArgValue(v, CellsOf(h1, vc.buffer_))]
                r == Relocate(ty, CellsOf(h1, vc.buffer_), 0, vc.size_, new0, 0,
                              After(f, 2))
                old == vc.buffer_
            IN  IF r.failed THEN
                    LET h2 == IF old = NullBlk THEN h1
                              ELSE [h1 EXCEPT ![old].cells = r.src]
                        h3 == [h2 EXCEPT ![nb].cells = r.dst]
                    IN  Res(DropBlock(h3, nb), vc, "grow", "reloc", NoRet, 1,
                            <<FreeEvent(h3, nb, 0, FALSE)>>, "none")
                ELSE
                    LET h2 == IF old = NullBlk THEN h1
                              ELSE [h1 EXCEPT ![old].cells =
                                        DestroyN(r.src, 0, vc.size_)]
                        h3 == [h2 EXCEPT ![nb].cells = r.dst]
                    IN  Res(DropBlock(h3, old),
                            [buffer_ |-> nb, capacity_ |-> GrowCap(vc.size_),
                             size_ |-> vc.size_ + 1],
                            "grow", "ok", NoRet, 1,
                            IF old = NullBlk THEN <<>>
                            ELSE <<FreeEvent(h3, old, 0, FALSE)>>, "none")
    ELSE
        IF f = 1 THEN Res(h, vc, "inplace", "ctor", NoRet, 0, <<>>, "none")
        ELSE Res([h EXCEPT ![vc.buffer_].cells[vc.size_ + 1] =
                              ArgValue(v, CellsOf(h, vc.buffer_))],
                 [vc EXCEPT !.size_ = vc.size_ + 1],
                 "inplace", "ok", NoRet, 0, <<>>, "none")

\* ---------------------------------------------------------------- Emplace
\* The catch block of Emplace: operator delete(end()), then rethrow.
\* end() is buffer_ + size_.  With size_ = 0 that is the start of the block
\* the Vector owns, and the block is released under it.  Otherwise it is an
\* address inside the block, which operator delete was never given by
\* operator new: undefined behaviour, here the allocator ignoring the call
\* (u = "ignored") or terminating the process (u = "abort").
EmplaceCatch(h, vc, path, outcome, u) ==
    IF vc.size_ = 0
    THEN Res(Deallocate(h, vc.buffer_), vc, path, outcome, NoRet, 0,
             <<FreeEvent(h, vc.buffer_, 0, TRUE)>>, "freed")
    ELSE Res(h, vc, path, outcome, NoRet, 0,
             <<FreeEvent(h, vc.buffer_, vc.size_, TRUE)>>, u)

\* The middle path: T new_item(args); new (end()) T(move(data_[size_-1]));
\* move_backward(begin()+position, end()-1, end()); *(begin()+position) =
\* move(new_item).
EmplaceMiddle(h, ty, vc, position, v, f, u) ==
    LET c0 == CellsOf(h, vc.buffer_)
        n == vc.size_
        tailSteps == RelocSteps(ty, 1)
        k2 == After(f, 1)
        c1 == [c0 EXCEPT ![n + 1] = c0[n], ![n] = Moved]
        k3 == After(k2, tailSteps)
        shift == n - 1 - position
        c2 == MoveBackward(c1, n - 1, n, IF Fails(k3, shift) THEN k3 - 1 ELSE shift)
        k4 == After(k3, shift)
        c3 == [c2 EXCEPT ![position + 1] = NewItem(v, c0, c2)]
    IN  IF f = 1 THEN EmplaceCatch(h, vc, "middle", "ctor", u)
        ELSE IF Fails(k2, tailSteps) THEN EmplaceCatch(h, vc, "middle", "tail", u)
        ELSE IF Fails(k3, shift) THEN
            EmplaceCatch([h EXCEPT ![vc.buffer_].cells = c2], vc, "middle", "shift", u)
        ELSE IF k4 = 1 THEN
            EmplaceCatch([h EXCEPT ![vc.buffer_].cells = c2], vc, "middle", "assign", u)
        ELSE Res([h EXCEPT ![vc.buffer_].cells = c3],
                 [vc EXCEPT !.size_ = n + 1],
                 "middle", "ok", position, 0, <<>>, "none")

\* The reallocating path.
EmplaceGrow(h, ty, vc, position, v, f) ==
    IF f = 1 THEN Res(h, vc, "grow", "alloc", NoRet, 0, <<>>, "none")
    ELSE
    LET nb == NewBlock(h)
        h1 == Allocate(h, GrowCap(vc.size_))
        old == vc.buffer_
        n == vc.size_
    IN  IF f = 2 THEN
            Res(DropBlock(h1, nb), vc, "grow", "ctor", NoRet, 1,
                <<FreeEvent(h1, nb, 0, FALSE)>>, "none")
        ELSE
        LET new0 == [h1[nb].cells EXCEPT ![position + 1] =
                        ArgValue(v, CellsOf(h1, old))]
            r1 == Relocate(ty, CellsOf(h1, old), 0, position, new0, 0, After(f, 2))
            r2 == Relocate(ty, r1.src, position, n - position,
                           r1.dst, position + 1, r1.rest)
            r == IF r1.failed THEN r1 ELSE r2
            failed == r1.failed \/ r2.failed
            h2 == IF old = NullBlk THEN h1
                  ELSE [h1 EXCEPT ![old].cells =
                           IF failed THEN r.src ELSE DestroyN(r.src, 0, n)]
            h3 == [h2 EXCEPT ![nb].cells = r.dst]
        IN  IF failed THEN
                Res(DropBlock(h3, nb), vc, "grow", "reloc", NoRet, 1,
                    <<FreeEvent(h3, nb, 0, FALSE)>>, "none")
            ELSE
                Res(DropBlock(h3, old),
                    [buffer_ |-> nb, capacity_ |-> GrowCap(n), size_ |-> n + 1],
                    "grow", "ok", position, 1,
                    IF old = NullBlk THEN <<>>
                    ELSE <<FreeEvent(h3, old, 0, FALSE)>>, "none")

Emplace(h, ty, vc, position, v, f, u) ==
    IF vc.size_ < vc.capacity_ THEN
        IF position = vc.size_ THEN
            IF f = 1 THEN EmplaceCatch(h, vc, "end", "ctor", u)
            ELSE Res([h EXCEPT ![vc.buffer_].cells[vc.size_ + 1] =
                                  ArgValue(v, CellsOf(h, vc.buffer_))],
                     [vc EXCEPT !.size_ = vc.size_ + 1],
                     "end", "ok", position, 0, <<>>, "none")
        ELSE EmplaceMiddle(h, ty, vc, position, v, f, u)
    ELSE EmplaceGrow(h, ty, vc, position, v, f)

\* EmplaceBack: Emplace(end(), args...).
EmplaceBack(h, ty, vc, v, f, u) == Emplace(h, ty, vc, vc.size_, v, f, u)

\* ----------------------------------------------------------------- Resize
\* A growth that exposes the new slots without constructing anything.
UninitValueConstructNone(c, s0, n) == c

\* n default constructions into raw slots c + s0.
RECURSIVE UninitValueConstruct(_, _, _)
UninitValueConstruct(c, s0, n) ==
    IF n = 0 THEN c
    ELSE [UninitValueConstruct(c, s0, n - 1) EXCEPT ![s0 + n] = Default]

\* A hand-written construction loop: a throw leaves the elements built so far.
ValueConstructNoCleanup(c, s0, n, k) ==
    UninitValueConstruct(c, s0, IF Fails(k, n) THEN k - 1 ELSE n)

\* std::uninitialized_value_construct_n(c + s0, n) with k steps left before
\* the throw: when the k-th construction throws, the algorithm destroys the
\* k - 1 elements it constructed and rethrows.
ValueConstructN(c, s0, n, k) ==
    IF Fails(k, n)
    THEN DestroyN(UninitValueConstruct(c, s0, k - 1), s0, k - 1)
    ELSE UninitValueConstruct(c, s0, n)

Resize(h, ty, vc, new_size, f) ==
    LET rs == Reserve(h, ty, vc, new_size, f)
        k == After(f, ReserveSteps(ty, vc, new_size))
        c == CellsOf(rs.heap, rs.vc.buffer_)
        n == rs.vc.size_
        put(cc) == IF rs.vc.buffer_ = NullBlk THEN rs.heap
                   ELSE [rs.heap EXCEPT ![rs.vc.buffer_].cells = cc]
    IN  IF rs.outcome # "ok" THEN rs
        ELSE IF new_size > n THEN
            IF Fails(k, new_size - n)
            THEN [rs EXCEPT !.heap = put(ValueConstructN(c, n, new_size - n, k)),
                            !.outcome = "default"]
            ELSE [rs EXCEPT !.heap = put(ValueConstructN(c, n, new_size - n, k)),
                            !.vc = [rs.vc EXCEPT !.size_ = new_size]]
        ELSE [rs EXCEPT !.heap = put(DestroyN(c, new_size, n - new_size)),
                        !.vc = [rs.vc EXCEPT !.size_ = new_size]]

\* ---------------------------------------------------------------- PopBack
PopBack(h, vc) ==
    IF vc.size_ > 0
    THEN Res([h EXCEPT ![vc.buffer_].cells[vc.size_] = Raw],
             [vc EXCEPT !.size_ = vc.size_ - 1],
             "pop", "ok", NoRet, 0, <<>>, "none")
    ELSE Res(h, vc, "noop", "ok", NoRet, 0, <<>>, "none")

\* ------------------------------------------------------------------ Erase
Erase(h, vc, position, f) ==
    LET c0 == CellsOf(h, vc.buffer_)
        n == vc.size_
        shift == n - 1 - position
        c1 == StdMove(c0, position + 1, position,
                      IF Fails(f, shift) THEN f - 1 ELSE shift)
    IN  IF Fails(f, shift)
        THEN Res([h EXCEPT ![vc.buffer_].cells = c1], vc,
                 "erase", "shift", NoRet, 0, <<>>, "none")
        ELSE Res([h EXCEPT ![vc.buffer_].cells = [c1 EXCEPT ![n] = Raw]],
                 [vc EXCEPT !.size_ = n - 1],
                 "erase", "ok", position, 0, <<>>, "none")

\* -------------------------------------------------------- copy and swap
Min(x, y) == IF x <= y THEN x ELSE y

\* Vector(const Vector& other): RawMemory(other.size_), then
\* std::uninitialized_copy_n; a throw releases the new block.
CopyConstruct(h, other, f) ==
    LET n == other.size_
        allocSteps == IF n = 0 THEN 0 ELSE 1
        nb == AllocateBuf(h, n)
        h1 == Allocate(h, n)
        k == After(f, allocSteps)
    IN  IF Fails(f, allocSteps)
        THEN Res(h, other, "copy", "alloc", NoRet, 0, <<>>, "none")
        ELSE IF Fails(k, n)
        THEN Res(DropBlock(h1, nb), other, "copy", "copy", NoRet, allocSteps,
                 <<FreeEvent(h1, nb, 0, FALSE)>>, "none")
        ELSE Res(IF n = 0 THEN h1
                 ELSE [h1 EXCEPT ![nb].cells =
                          UninitCopy(CellsOf(h1, other.buffer_), 0, h1[nb].cells, 0, n)],
                 [buffer_ |-> nb, capacity_ |-> n, size_ |-> n],
                 "copy", "ok", NoRet, allocSteps, <<>>, "none")

\* The element work of CopyVector(other): std::copy over the common prefix,
\* then std::uninitialized_copy_n or std::destroy_n for the remainder.
CopyVectorCells(h, vc, other, f) ==
    LET src == CellsOf(h, other.buffer_)
        c0 == CellsOf(h, vc.buffer_)
        m == Min(vc.size_, other.size_)
        c1 == StdCopy(src, c0, IF Fails(f, m) THEN f - 1 ELSE m)
        k == After(f, m)
        more == other.size_ - vc.size_
    IN  IF Fails(f, m) THEN [cells |-> c1, outcome |-> "assign"]
        ELSE IF vc.size_ <= other.size_ THEN
            IF Fails(k, more) THEN [cells |-> c1, outcome |-> "copy"]
            ELSE [cells |-> UninitCopy(src, vc.size_, c1, vc.size_, more),
                  outcome |-> "ok"]
        ELSE [cells |-> DestroyN(c1, other.size_, vc.size_ - other.size_),
              outcome |-> "ok"]

\* CopyVector with size_ = other.size_ done before the elements are copied.
CopyVectorSizeFirst(h, vc, other, f) ==
    LET r == CopyVectorCells(h, vc, other, f)
    IN  Res(IF vc.buffer_ = NullBlk THEN h ELSE [h EXCEPT ![vc.buffer_].cells = r.cells],
            [vc EXCEPT !.size_ = other.size_],
            "inplace", r.outcome, NoRet, 0, <<>>, "none")

\* CopyVector(other): size_ = other.size_ is its last statement.
CopyVector(h, vc, other, f) ==
    LET r == CopyVectorCells(h, vc, other, f)
    IN  Res(IF vc.buffer_ = NullBlk THEN h ELSE [h EXCEPT ![vc.buffer_].cells = r.cells],
            IF r.outcome = "ok" THEN [vc EXCEPT !.size_ = other.size_] ELSE vc,
            "inplace", r.outcome, NoRet, 0, <<>>, "none")

\* Vector other_copy(other); Swap(other_copy); then ~Vector of other_copy,
\* which now holds the old elements and block: destroy_n, ~RawMemory.
CopyAndSwap(h, vc, other, f) ==
    LET cp == CopyConstruct(h, other, f)
        old == vc.buffer_
        h1 == IF old = NullBlk THEN cp.heap
              ELSE [cp.heap EXCEPT ![old].cells =
                       DestroyN(CellsOf(cp.heap, old), 0, vc.size_)]
    IN  IF cp.outcome # "ok"
        THEN [cp EXCEPT !.vc = vc, !.path = "swap"]
        ELSE Res(DropBlock(h1, old), cp.vc, "swap", "ok", NoRet, cp.allocs,
                 IF old = NullBlk THEN <<>> ELSE <<FreeEvent(h1, old, 0, FALSE)>>,
                 "none")

\* A copy assignment that reuses the storage only when the source is no
\* longer than the elements it has.
CopyAssignWhenSizeFits(h, vc, other, f) ==
    IF other.size_ <= vc.size_
    THEN CopyVector(h, vc, other, f)
    ELSE CopyAndSwap(h, vc, other, f)

\* A copy assignment that never reuses the storage it has.
CopyAssignAlwaysSwap(h, vc, other, f) == CopyAndSwap(h, vc, other, f)

\* operator=(const Vector& other) with this != &other.
CopyAssign(h, vc, other, f) ==
    IF other.size_ <= vc.capacity_
    THEN CopyVector(h, vc, other, f)
    ELSE CopyAndSwap(h, vc, other, f)

\* explicit Vector(size_t size): RawMemory(size), then
\* std::uninitialized_value_construct_n; a throw releases the new block.
SizeConstruct(h, n, f) ==
    LET allocSteps == IF n = 0 THEN 0 ELSE 1
        nb == AllocateBuf(h, n)
        h1 == Allocate(h, n)
        k == After(f, allocSteps)
    IN  IF Fails(f, allocSteps)
        THEN Res(h, DefaultVector, "size", "alloc", NoRet, 0, <<>>, "none")
        ELSE IF Fails(k, n)
        THEN Res(DropBlock(h1, nb), DefaultVector, "size", "default", NoRet,
                 allocSteps, <<FreeEvent(h1, nb, 0, FALSE)>>, "none")
        ELSE Res(IF n = 0 THEN h1
                 ELSE [h1 EXCEPT ![nb].cells = ValueConstructN(h1[nb].cells, 0, n, 0)],
                 [buffer_ |-> nb, capacity_ |-> n, size_ |-> n],
                 "size", "ok", NoRet, allocSteps, <<>>, "none")

\* An assignment of a Vector to itself: the identity check fails and the
\* body is skipped.
SelfAssign(h, vc) == Res(h, vc, "self", "ok", NoRet, 0, <<>>, "none")

\* ------------------------------------------------- Swap, move assignment
\* data_.Swap(other.data_): the exchange of block and capacity.
DataSwap(this, other) ==
    [this |-> [this EXCEPT !.buffer_ = other.buffer_,
                           !.capacity_ = other.capacity_],
     other |-> [other EXCEPT !.buffer_ = this.buffer_,
                             !.capacity_ = this.capacity_]]

\* Vector::Swap(other): if (this != &other) { data_.Swap(other.data_);
\* std::swap(size_, other.size_); }.  `same` says that this and other are
\* one object.
Swap(this, other, same) ==
    IF same THEN [this |-> this, other |-> other]
    ELSE LET d == DataSwap(this, other)
         IN  [this |-> [d.this EXCEPT !.size_ = other.size_],
              other |-> [d.other EXCEPT !.size_ = this.size_]]

\* A move assignment that takes the storage of other and leaves other as a
\* default-constructed Vector.
MoveAssignSteal(this, other, same) ==
    IF same THEN [this |-> this, other |-> other]
    ELSE [this |-> other,
          other |-> [buffer_ |-> NullBlk, capacity_ |-> 0, size_ |-> 0]]

\* operator=(Vector&& other): if (this != &other) Swap(other).
MoveAssign(this, other, same) ==
    IF same THEN [this |-> this, other |-> other]
    ELSE Swap(this, other, FALSE)

\* ---------------------------------------------------------------- actions
NoVal == "none"

\* RawMemory() = default, and a RawMemory whose lifetime has not begun or
\* has ended.
DefaultRaw == [alive |-> TRUE, buffer_ |-> NullBlk, capacity_ |-> 0]
NoRaw == [alive |-> FALSE, buffer_ |-> NullBlk, capacity_ |-> 0]

Snapshot == [heap |-> heap, vec |-> vec, raw |-> raw]

\* The live elements of Vector record vc in heap h: slots [0, size_).
Elems(h, vc) == SubSeq(CellsOf(h, vc.buffer_), 1, vc.size_)

EmptySnapshot ==
    [heap |-> EmptyHeap, vec |-> [v \in VecIds |-> DefaultVector],
     raw |-> [r \in RawIds |-> NoRaw]]

\* Nothing appended yet.
NoHist == [appended |-> <<>>, reallocs |-> 0]

\* No call is in progress: the caller is between two operations.
Idle ==
    [op |-> "idle", tgt |-> "a", pos |-> 0, val |-> NoVal,
     path |-> "noop", outcome |-> "ok", ret |-> NoRet,
     allocs |-> 0, frees |-> <<>>, ub |-> "none", pre |-> EmptySnapshot]

\* A Vector can be operated on between two calls, while the process runs
\* and its block has not been released under it.
Usable(t) == last = Idle /\ ~aborted /\ t \notin dangling

\* The operation op on Vector t, run with fault step f and allocator
\* behaviour u, has result r, which becomes the new state.  A fault step
\* the operation never reaches is the run without a fault (f = 0), and an
\* allocator behaviour that is never asked for is "ignored".  A terminated
\* process has no memory left to observe.
Apply(op, t, pos, val, f, u, r) ==
    /\ f = 0 \/ r.outcome # "ok"
    /\ u = "ignored" \/ r.ub = u
    /\ heap' = IF r.ub = "abort" THEN EmptyHeap ELSE r.heap
    /\ vec' = IF r.ub = "abort" THEN EmptySnapshot.vec
              ELSE [vec EXCEPT ![t] = r.vc]
    /\ aborted' = (r.ub = "abort")
    /\ dangling' = IF r.ub = "freed" THEN dangling \cup {t} ELSE dangling
    /\ last' = [op |-> op, tgt |-> t, pos |-> pos, val |-> val,
                path |-> r.path, outcome |-> r.outcome, ret |-> r.ret,
                allocs |-> r.allocs, frees |-> r.frees, ub |-> r.ub,
                pre |-> IF r.ub = "abort" THEN EmptySnapshot ELSE Snapshot]
    /\ UNCHANGED <<T, raw>>

\* An operation outside a run of appends to a fresh Vector.
Do(op, t, pos, val, f, u, r) ==
    /\ Apply(op, t, pos, val, f, u, r)
    /\ UNCHANGED hist

Faults == 0..MaxFault
UbOutcomes == {"ignored", "abort"}

CanGrow(t) == vec[t].size_ < vec[t].capacity_ \/ GrowCap(vec[t].size_) <= MaxCap

PushBackOp(t, v, f) ==
    /\ Usable(t)
    /\ CanGrow(t)
    /\ Do("PushBack", t, vec[t].size_, v, f, "ignored", PushBack(heap, T, vec[t], v, f))

EmplaceBackOp(t, v, f, u) ==
    /\ Usable(t)
    /\ CanGrow(t)
    /\ Do("EmplaceBack", t, vec[t].size_, v, f, u, EmplaceBack(heap, T, vec[t], v, f, u))

EmplaceOp(t, position, v, f, u) ==
    /\ Usable(t)
    /\ CanGrow(t)
    /\ position \in 0..vec[t].size_
    /\ Do("Emplace", t, position, v, f, u, Emplace(heap, T, vec[t], position, v, f, u))

ReserveOp(t, new_capacity, f) ==
    /\ Usable(t)
    /\ Do("Reserve", t, new_capacity, NoVal, f, "ignored", Reserve(heap, T, vec[t], new_capacity, f))

ResizeOp(t, new_size, f) ==
    /\ Usable(t)
    /\ Do("Resize", t, new_size, NoVal, f, "ignored", Resize(heap, T, vec[t], new_size, f))

PopBackOp(t) ==
    /\ Usable(t)
    /\ Do("PopBack", t, vec[t].size_, NoVal, 0, "ignored", PopBack(heap, vec[t]))

EraseOp(t, position, f) ==
    /\ Usable(t)
    /\ position \in 0..(vec[t].size_ - 1)
    /\ Do("Erase", t, position, NoVal, f, "ignored", Erase(heap, vec[t], position, f))

\* t = o for two Vectors of a copy-constructible T, or for one.
CopyAssignOp(t, o, f) ==
    /\ Usable(t) /\ Usable(o)
    /\ T.copyable
    /\ Do("CopyAssign", t, 0, o, f, "ignored",
          IF t = o THEN SelfAssign(heap, vec[t])
          ELSE CopyAssign(heap, vec[t], vec[o], f))

\* A noexcept operation of Vector t with Vector o that only exchanges
\* fields: no block and no element is touched.
PairOp(op, t, o, res) ==
    /\ Usable(t) /\ Usable(o)
    /\ vec' = [vec EXCEPT ![t] = res.this,
                          ![o] = IF t = o THEN res.this ELSE res.other]
    /\ last' = [op |-> op, tgt |-> t, pos |-> 0, val |-> o,
                path |-> IF t = o THEN "self" ELSE "swap",
                outcome |-> "ok", ret |-> NoRet,
                allocs |-> 0, frees |-> <<>>, ub |-> "none", pre |-> Snapshot]
    /\ UNCHANGED <<heap, T, aborted, dangling, hist, raw>>

\* t = std::move(o).
MoveAssignOp(t, o) == PairOp("MoveAssign", t, o, MoveAssign(vec[t], vec[o], t = o))

\* t.Swap(o).
SwapOp(t, o) == PairOp("Swap", t, o, Swap(vec[t], vec[o], t = o))

\* The call returns, or its exception reaches the caller, who goes on.  A
\* terminated process does not go on.
Return ==
    /\ last # Idle
    /\ ~aborted
    /\ last' = Idle
    /\ UNCHANGED <<heap, vec, T, aborted, dangling, hist, raw>>

\* ------------------------------------------------------------------ Init
Init ==
    /\ heap = EmptyHeap
    /\ vec = [v \in VecIds |-> DefaultVector]
    /\ T \in Types
    /\ aborted = FALSE
    /\ dangling = {}
    /\ last = Idle
    /\ hist = NoHist
    /\ raw = [r \in RawIds |-> NoRaw]

\* ------------------------------------------------- one Vector, all faults
DoPushBack == \E v \in Vals, f \in Faults : PushBackOp("a", v, f)

DoEmplaceBack ==
    \E v \in Vals, f \in Faults, u \in UbOutcomes : EmplaceBackOp("a", v, f, u)

DoEmplace ==
    \E p \in 0..MaxCap, v \in Vals, f \in Faults, u \in UbOutcomes :
        EmplaceOp("a", p, v, f, u)

DoReserve == \E n \in 0..MaxCap, f \in Faults : ReserveOp("a", n, f)

DoResize == \E n \in 0..MaxCap, f \in Faults : ResizeOp("a", n, f)

DoPopBack == PopBackOp("a")

DoErase == \E p \in 0..MaxCap, f \in Faults : EraseOp("a", p, f)

Next ==
    \/ DoPushBack
    \/ DoEmplaceBack
    \/ DoEmplace
    \/ DoReserve
    \/ DoResize
    \/ DoPopBack
    \/ DoErase
    \/ Return

Spec == Init /\ [][Next]_vars

\* ------------------------------------------- two Vectors, copy assignment
\* Both Vectors are filled without faults; the assignments take every fault.
CopyableTypes == {ty \in Types : ty.copyable}

InitAssign == Init /\ T \in CopyableTypes

AsgPushBack == \E t \in VecIds, v \in Vals : PushBackOp(t, v, 0)

AsgReserve ==
    \E t \in VecIds, n \in 1..MaxCap :
        vec[t].capacity_ < n /\ ReserveOp(t, n, 0)

AsgCopyAssign == \E t \in VecIds, o \in VecIds, f \in Faults : CopyAssignOp(t, o, f)

NextAssign ==
    \/ AsgPushBack
    \/ AsgReserve
    \/ AsgCopyAssign
    \/ Return

SpecAssign == InitAssign /\ [][NextAssign]_vars

\* ------------------------------- two Vectors, move assignment and Swap
\* Both Vectors are filled without faults and then exchanged, or assigned
\* to themselves.
MovMoveAssign == \E t \in VecIds, o \in VecIds : MoveAssignOp(t, o)

MovSwap == \E t \in VecIds, o \in VecIds : SwapOp(t, o)

MovSelfCopyAssign == \E t \in VecIds : CopyAssignOp(t, t, 0)

NextMove ==
    \/ AsgPushBack
    \/ AsgReserve
    \/ MovMoveAssign
    \/ MovSwap
    \/ MovSelfCopyAssign
    \/ Return

SpecMove == InitAssign /\ [][NextMove]_vars

\* --------------------- one Vector, all faults, and a source to copy from
\* Vector b is constructed with SrcSize value-initialized elements, Vector
\* a is default-constructed; a takes every operation with every fault, copy
\* assignment from b included, and b is never modified.
InitCap ==
    /\ heap = SizeConstruct(EmptyHeap, SrcSize, 0).heap
    /\ vec = [v \in VecIds |->
                 IF v = "b" THEN SizeConstruct(EmptyHeap, SrcSize, 0).vc
                 ELSE DefaultVector]
    /\ T \in CopyableTypes
    /\ aborted = FALSE
    /\ dangling = {}
    /\ last = Idle
    /\ hist = NoHist
    /\ raw = [r \in RawIds |-> NoRaw]

CapCopyAssign == \E f \in Faults : CopyAssignOp("a", "b", f)

NextCap ==
    \/ DoPushBack
    \/ DoEmplaceBack
    \/ DoEmplace
    \/ DoReserve
    \/ DoResize
    \/ DoPopBack
    \/ DoErase
    \/ CapCopyAssign
    \/ Return

SpecCap == InitCap /\ [][NextCap]_vars

\* ----------------------- one Vector, arguments that refer to its elements
\* Vector a is filled without faults; PushBack and Emplace / Insert are
\* then given a reference to one of a's own elements.
AliPushBack == \E v \in Vals : PushBackOp("a", v, 0)

AliReserve ==
    \E n \in 1..MaxCap : vec["a"].capacity_ < n /\ ReserveOp("a", n, 0)

AliPushBackRef ==
    \E i \in 0..(MaxCap - 1) :
        i < vec["a"].size_ /\ PushBackOp("a", Ref(i), 0)

AliEmplaceRef ==
    \E p \in 0..MaxCap, i \in 0..(MaxCap - 1) :
        i < vec["a"].size_ /\ EmplaceOp("a", p, Ref(i), 0, "ignored")

NextAlias ==
    \/ AliPushBack
    \/ AliReserve
    \/ AliPushBackRef
    \/ AliEmplaceRef
    \/ Return

SpecAlias == Init /\ [][NextAlias]_vars

\* ------------------------------------- one Vector, successful appends only
\* A fresh Vector a takes up to MaxAppends appends, one at a time, none of
\* which throws; hist records the values in append order and counts the
\* RawMemory new_data blocks the appends allocated.
AppendOp(op, v, r) ==
    /\ Usable("a")
    /\ Len(hist.appended) < MaxAppends
    /\ Apply(op, "a", vec["a"].size_, v, 0, "ignored", r)
    /\ hist' = [appended |-> Append(hist.appended, v),
                reallocs |-> hist.reallocs + r.allocs]

AppPushBack ==
    \E v \in Vals : AppendOp("PushBack", v, PushBack(heap, T, vec["a"], v, 0))

AppEmplaceBack ==
    \E v \in Vals :
        AppendOp("EmplaceBack", v, EmplaceBack(heap, T, vec["a"], v, 0, "ignored"))

NextAppend ==
    \/ AppPushBack
    \/ AppEmplaceBack
    \/ Return

SpecAppend == Init /\ [][NextAppend]_vars

\* ------------------------------------------------------------- RawMemory
\* explicit RawMemory(size_t capacity): buffer_(Allocate(capacity)),
\* capacity_(capacity).  When operator new throws no object comes to be.
RawConstruct(h, n, f) ==
    IF n # 0 /\ f = 1
    THEN [heap |-> h, rm |-> NoRaw, outcome |-> "alloc", allocs |-> 0]
    ELSE [heap |-> Allocate(h, n),
          rm |-> [alive |-> TRUE, buffer_ |-> AllocateBuf(h, n), capacity_ |-> n],
          outcome |-> "ok", allocs |-> IF n = 0 THEN 0 ELSE 1]

\* RawMemory(RawMemory&& other): std::exchange of both fields of other.
RawMoveConstruct(other) ==
    [this |-> [alive |-> TRUE, buffer_ |-> other.buffer_,
               capacity_ |-> other.capacity_],
     other |-> [other EXCEPT !.buffer_ = NullBlk, !.capacity_ = 0]]

\* RawMemory::Swap(other): std::swap of buffer_ and of capacity_.
RawSwap(this, other) ==
    [this |-> [this EXCEPT !.buffer_ = other.buffer_,
                           !.capacity_ = other.capacity_],
     other |-> [other EXCEPT !.buffer_ = this.buffer_,
                             !.capacity_ = this.capacity_]]

\* A move assignment that takes the fields of rhs and leaves rhs empty.
RawMoveAssignSteal(this, rhs, same) ==
    IF same THEN [this |-> this, other |-> rhs]
    ELSE [this |-> [this EXCEPT !.buffer_ = rhs.buffer_,
                                !.capacity_ = rhs.capacity_],
          other |-> [rhs EXCEPT !.buffer_ = NullBlk, !.capacity_ = 0]]

\* operator=(RawMemory&& rhs): if (this != &rhs) this->Swap(rhs).  `same`
\* says that this and rhs are one object.
RawMoveAssign(this, rhs, same) ==
    IF same THEN [this |-> this, other |-> rhs] ELSE RawSwap(this, rhs)

\* ~RawMemory: Deallocate(buffer_).
RawDestroy(h, rm) == Deallocate(h, rm.buffer_)

\* The record of an operation on RawMemory objects r (this) and o.
RawLast(op, r, o, n, outcome, allocs, frees) ==
    [op |-> op, tgt |-> r, pos |-> n, val |-> o,
     path |-> "raw", outcome |-> outcome, ret |-> NoRet,
     allocs |-> allocs, frees |-> frees, ub |-> "none", pre |-> Snapshot]

RawIdle == last = Idle /\ ~aborted

RawCtorOp(r, n, f) ==
    /\ RawIdle
    /\ ~raw[r].alive
    /\ LET c == RawConstruct(heap, n, f)
       IN  /\ f = 0 \/ c.outcome # "ok"
           /\ heap' = c.heap
           /\ raw' = [raw EXCEPT ![r] = c.rm]
           /\ last' = RawLast("RawCtor", r, NoVal, n, c.outcome, c.allocs, <<>>)
    /\ UNCHANGED <<vec, T, aborted, dangling, hist>>

\* An operation of r with the other object o that touches no block.
RawPairOp(op, r, o, res) ==
    /\ RawIdle
    /\ raw[o].alive
    /\ raw' = [raw EXCEPT ![r] = res.this, ![o] = IF r = o THEN res.this ELSE res.other]
    /\ last' = RawLast(op, r, o, 0, "ok", 0, <<>>)
    /\ UNCHANGED <<heap, vec, T, aborted, dangling, hist>>

RawMoveCtorOp(r, o) ==
    /\ ~raw[r].alive
    /\ RawPairOp("RawMoveCtor", r, o, RawMoveConstruct(raw[o]))

RawMoveAssignOp(r, o) ==
    /\ raw[r].alive
    /\ RawPairOp("RawMoveAssign", r, o, RawMoveAssign(raw[r], raw[o], r = o))

RawSwapOp(r, o) ==
    /\ raw[r].alive
    /\ RawPairOp("RawSwap", r, o, RawSwap(raw[r], raw[o]))

RawDtorOp(r) ==
    /\ RawIdle
    /\ raw[r].alive
    /\ heap' = RawDestroy(heap, raw[r])
    /\ raw' = [raw EXCEPT ![r] = NoRaw]
    /\ last' = RawLast("RawDtor", r, NoVal, 0, "ok", 0,
                       IF raw[r].buffer_ = NullBlk THEN <<>>
                       ELSE <<FreeEvent(heap, raw[r].buffer_, 0, FALSE)>>)
    /\ UNCHANGED <<vec, T, aborted, dangling, hist>>

DoRawCtor == \E r \in RawIds, n \in 0..MaxCap, f \in 0..1 : RawCtorOp(r, n, f)
DoRawMoveCtor == \E r \in RawIds, o \in RawIds : RawMoveCtorOp(r, o)
DoRawMoveAssign == \E r \in RawIds, o \in RawIds : RawMoveAssignOp(r, o)
DoRawSwap == \E r \in RawIds, o \in RawIds : RawSwapOp(r, o)
DoRawDtor == \E r \in RawIds : RawDtorOp(r)

NextRaw ==
    \/ DoRawCtor
    \/ DoRawMoveCtor
    \/ DoRawMoveAssign
    \/ DoRawSwap
    \/ DoRawDtor
    \/ Return

SpecRaw == Init /\ [][NextRaw]_vars

\* ================================================================ claims
\* The Vector the last operation acted on, before and after it.
PreVc == last.pre.vec[last.tgt]
PostVc == vec[last.tgt]
PreCells == CellsOf(last.pre.heap, PreVc.buffer_)
PostCells == CellsOf(heap, PostVc.buffer_)
PreElems == Elems(last.pre.heap, PreVc)
PostElems == Elems(heap, PostVc)

\* The error of the last operation reached the caller.
Propagated == last.outcome # "ok" /\ last.ub # "abort"

\* The Vector owns the same, still allocated block, with the same size,
\* capacity and element values as before the last operation.
SameContainer ==
    /\ PostVc = PreVc
    /\ PostVc.buffer_ # NullBlk => heap[PostVc.buffer_].alloc
    /\ PostElems = PreElems

\* C1: when PushBack or EmplaceBack takes the growth path (size == capacity)
\* and the constructor of the new element throws, size, capacity, the owned
\* block and every existing element are as before the call.
C1_GrowthCtorThrowLeavesContainer ==
    ( /\ last.op \in {"PushBack", "EmplaceBack"}
      /\ last.path = "grow"
      /\ last.outcome = "ctor" )
    => SameContainer

C1_Witness ==
    /\ last.op = "EmplaceBack"
    /\ last.path = "grow"
    /\ last.outcome = "ctor"
    /\ PreVc.size_ >= 1
    /\ PreVc.size_ = PreVc.capacity_

\* C2: after any sequence of operations, failed ones included, every Vector
\* has 0 <= size <= capacity, a constructed element in every slot of
\* [0, size) and none in [size, capacity).
SlotsConsistent(t) ==
    LET c == CellsOf(heap, vec[t].buffer_)
    IN  /\ 0 <= vec[t].size_
        /\ vec[t].size_ <= vec[t].capacity_
        /\ Len(c) = vec[t].capacity_
        /\ \A i \in 1..Len(c) : (c[i] # Raw) <=> (i <= vec[t].size_)

C2_SlotsInvariant ==
    ~aborted => \A t \in VecIds \ dangling : SlotsConsistent(t)

\* C3: a successful Emplace / Insert at position p of a sequence of length n
\* gives a sequence of length n + 1 with the new value at p, the old
\* elements 0..p-1 before it and p..n-1 after it in order, and returns
\* begin() + p.
C3_EmplaceInsertsAtPosition ==
    (last.op = "Emplace" /\ last.outcome = "ok") =>
        /\ PostVc.size_ = PreVc.size_ + 1
        /\ PostElems = SubSeq(PreElems, 1, last.pos) \o <<last.val>>
                        \o SubSeq(PreElems, last.pos + 1, PreVc.size_)
        /\ last.ret = last.pos

C3_Witness ==
    /\ last.op = "Emplace"
    /\ last.outcome = "ok"
    /\ last.path = "middle"
    /\ last.pos = 0
    /\ PreVc.size_ = 3
    /\ PreElems[1] # PreElems[2]
    /\ PreElems[2] # PreElems[3]

\* C4 as stated: a failed Reserve(k), k > capacity, leaves size, capacity and
\* every element value as before the call, for every element type.
C4_ReserveFailureLeavesContainer ==
    (last.op = "Reserve" /\ last.outcome # "ok") => SameContainer

\* C4 amended: a failed Reserve leaves size, capacity and the owned block as
\* before for every element type, and every element value as before when
\* the allocation failed or T is copy-constructible or nothrow-movable; for
\* a T that is neither, an element is as before or moved-from.
C4_ReserveFailureAmended ==
    (last.op = "Reserve" /\ last.outcome # "ok") =>
        /\ PostVc = PreVc
        /\ PostVc.buffer_ # NullBlk => heap[PostVc.buffer_].alloc
        /\ (last.outcome = "alloc" \/ T.copyable \/ T.nothrow_move)
               => PostElems = PreElems
        /\ \A i \in 1..PreVc.size_ : PostElems[i] \in {PreElems[i], Moved}

C4_Witness ==
    /\ last.op = "Reserve"
    /\ last.outcome = "reloc"
    /\ T.copyable
    /\ PreVc.size_ >= 2

\* C5: when a step of the middle insert (position < size < capacity) throws,
\* the error propagates with the pre-call size, the pre-call value in every
\* slot of [0, size) and no constructed element in the tail slot.
C5_MiddleInsertFailureRestores ==
    (last.op = "Emplace" /\ last.path = "middle" /\ Propagated) =>
        /\ PostVc.size_ = PreVc.size_
        /\ PostElems = PreElems
        /\ PostCells[PostVc.size_ + 1] = Raw

\* C6: PushBack and EmplaceBack with size < capacity and a throwing element
\* constructor leave size, capacity, the owned block and all elements as
\* before, and deallocate nothing.
C6_InPlaceAppendCtorThrow ==
    ( /\ last.op \in {"PushBack", "EmplaceBack"}
      /\ PreVc.size_ < PreVc.capacity_
      /\ last.outcome = "ctor" )
    => (SameContainer /\ last.frees = <<>>)

\* The source Vector of the last copy assignment, before and after it.
SrcId == last.val
PreSrcElems == Elems(last.pre.heap, last.pre.vec[SrcId])
SrcUnchanged ==
    /\ vec[SrcId] = last.pre.vec[SrcId]
    /\ Elems(heap, vec[SrcId]) = PreSrcElems

\* C7 as stated: a failed copy assignment a = b leaves a exactly as before
\* on either path, and b unmodified.
C7_CopyAssignFailureLeavesBoth ==
    (last.op = "CopyAssign" /\ last.outcome # "ok") =>
        (SameContainer /\ SrcUnchanged)

\* C7 amended: a failed copy assignment a = b leaves b unmodified and a with
\* its size, capacity and block; on the copy-and-swap path a's elements are
\* as before, on the in-place path each element of a is as before or
\* already holds b's value at its index.
C7_CopyAssignFailureAmended ==
    (last.op = "CopyAssign" /\ last.outcome # "ok") =>
        /\ SrcUnchanged
        /\ PostVc = PreVc
        /\ PostVc.buffer_ # NullBlk => heap[PostVc.buffer_].alloc
        /\ last.path = "swap" => PostElems = PreElems
        /\ \A i \in 1..PreVc.size_ :
              \/ PostElems[i] = PreElems[i]
              \/ /\ last.path = "inplace"
                 /\ i <= Len(PreSrcElems)
                 /\ PostElems[i] = PreSrcElems[i]

C7_Witness ==
    /\ last.op = "CopyAssign"
    /\ last.outcome = "copy"
    /\ last.path = "swap"
    /\ PreVc.size_ >= 1
    /\ Len(PreSrcElems) >= 2

\* C8: a successful copy assignment a = b makes a's elements equal b's and
\* leaves b unchanged; when b.size <= a.capacity a keeps its block and
\* capacity and nothing is allocated, otherwise one block is allocated and
\* a's capacity is b.size.
C8_CopyAssignSuccess ==
    (last.op = "CopyAssign" /\ last.outcome = "ok") =>
        /\ PostElems = PreSrcElems
        /\ SrcUnchanged
        /\ IF Len(PreSrcElems) <= PreVc.capacity_
           THEN /\ PostVc.buffer_ = PreVc.buffer_
                /\ PostVc.capacity_ = PreVc.capacity_
                /\ last.allocs = 0
           ELSE /\ last.allocs = 1
                /\ PostVc.buffer_ # PreVc.buffer_
                /\ PostVc.capacity_ = Len(PreSrcElems)

C8_Witness ==
    /\ last.op = "CopyAssign"
    /\ last.outcome = "ok"
    /\ last.path = "inplace"
    /\ Len(PreSrcElems) >= 1
    /\ Len(PreSrcElems) < PreVc.size_
    /\ PreElems # PreSrcElems

\* C9: a successful Erase at position p of a sequence of length n gives the
\* sequence without its element p, in order, with the same capacity, and
\* returns begin() + p (end() when p = n - 1); at p = n - 1 size and
\* sequence are those PopBack gives.
C9_EraseRemovesPosition ==
    (last.op = "Erase" /\ last.outcome = "ok") =>
        /\ PostVc.size_ = PreVc.size_ - 1
        /\ PostElems = SubSeq(PreElems, 1, last.pos)
                        \o SubSeq(PreElems, last.pos + 2, PreVc.size_)
        /\ PostVc.capacity_ = PreVc.capacity_
        /\ PostVc.buffer_ = PreVc.buffer_
        /\ last.ret = last.pos
        /\ last.pos = PreVc.size_ - 1 =>
              LET pb == PopBack(last.pre.heap, PreVc)
              IN  /\ last.ret = PostVc.size_
                  /\ PostVc.size_ = pb.vc.size_
                  /\ PostElems = Elems(pb.heap, pb.vc)

C9_Witness ==
    /\ last.op = "Erase"
    /\ last.outcome = "ok"
    /\ last.pos = 0
    /\ PreVc.size_ = 3
    /\ PreElems[1] # PreElems[2]
    /\ PreElems[2] # PreElems[3]

\* C10: when Resize(newSize), newSize > size, fails in an element's default
\* constructor, size is unchanged, no element constructed by the call is
\* left in [size, newSize), and the elements of [0, size) keep their values.
C10_ResizeGrowFailure ==
    (last.op = "Resize" /\ last.outcome = "default") =>
        /\ PostVc.size_ = PreVc.size_
        /\ PostElems = PreElems
        /\ \A i \in (PostVc.size_ + 1)..Len(PostCells) :
              \/ PostCells[i] = Raw
              \/ /\ PostVc.buffer_ = PreVc.buffer_
                 /\ PostCells[i] = PreCells[i]

C10_Witness ==
    /\ last.op = "Resize"
    /\ last.outcome = "default"
    /\ PreVc.size_ >= 1
    /\ last.pos >= PreVc.size_ + 2

\* C11: Reserve(k) with k <= capacity leaves size, capacity, the owned block
\* and every slot of it unchanged, and allocates, constructs and destroys
\* nothing: the whole heap is as before and no block is released.
C11_ReserveWithinCapacityIsNoOp ==
    (last.op = "Reserve" /\ last.pos <= PreVc.capacity_) =>
        /\ last.outcome = "ok"
        /\ PostVc = PreVc
        /\ heap = last.pre.heap
        /\ last.allocs = 0
        /\ last.frees = <<>>

C11_Witness ==
    /\ last.op = "Reserve"
    /\ last.pos = PreVc.capacity_
    /\ PreVc.size_ >= 2
    /\ PreVc.size_ < PreVc.capacity_
    /\ heap = last.pre.heap

\* floor(log2(n)) and ceil(log2(n)) for n >= 1.
RECURSIVE Log2Floor(_)
Log2Floor(n) == IF n <= 1 THEN 0 ELSE 1 + Log2Floor(n \div 2)

Log2Ceil(n) == IF n <= 1 THEN 0 ELSE 1 + Log2Floor(n - 1)

Max(x, y) == IF x >= y THEN x ELSE y

\* The elements are the appended values in append order, and an append that
\* reallocated took the capacity from c to max(1, 2c).
AppendsKeepOrderAndDouble ==
    /\ Elems(heap, vec["a"]) = hist.appended
    /\ vec["a"].size_ = Len(hist.appended)
    /\ (last.op \in {"PushBack", "EmplaceBack"} /\ last.path = "grow") =>
          PostVc.capacity_ = Max(1, 2 * PreVc.capacity_)

\* C12 as stated: after n >= 1 successful appends to a fresh Vector the
\* elements are the appended values in order, every reallocation doubled the
\* capacity (0 to 1), and at most floor(log2(n)) + 1 reallocations happened.
C12_AppendsReallocFloorBound ==
    /\ AppendsKeepOrderAndDouble
    /\ Len(hist.appended) >= 1 =>
          hist.reallocs <= Log2Floor(Len(hist.appended)) + 1

\* C12 amended: the same, with the number of reallocations after n >= 1
\* appends being ceil(log2(n)) + 1, which is the bound.
C12_AppendsReallocCeilBound ==
    /\ AppendsKeepOrderAndDouble
    /\ Len(hist.appended) >= 1 =>
          hist.reallocs = Log2Ceil(Len(hist.appended)) + 1

C12_Witness ==
    /\ Len(hist.appended) = 5
    /\ hist.appended[1] # hist.appended[2]
    /\ hist.reallocs = 4
    /\ last.op = "EmplaceBack"
    /\ last.path = "grow"
    /\ PreVc.capacity_ = 4

\* The destination and the source of the last RawMemory move, before and
\* after it.
PreDst == last.pre.raw[last.tgt]
PreSrc == last.pre.raw[last.val]
PostDst == raw[last.tgt]
PostSrc == raw[last.val]

RawMoved == last.op \in {"RawMoveCtor", "RawMoveAssign"} /\ last.tgt # last.val

\* C13 as stated: move construction and move assignment of RawMemory give
\* the destination the source's block and capacity and leave the source
\* with capacity 0 and no block, whatever the destination held.
C13_RawMoveLeavesSourceEmpty ==
    RawMoved =>
        /\ PostDst.buffer_ = PreSrc.buffer_
        /\ PostDst.capacity_ = PreSrc.capacity_
        /\ PostSrc.buffer_ = NullBlk
        /\ PostSrc.capacity_ = 0

\* C13 amended: both give the destination the source's block and capacity
\* and release nothing; move construction leaves the source with capacity 0
\* and no block, move assignment leaves it with the block and capacity the
\* destination had (capacity 0 and no block only if the destination had
\* none); move assignment of an object to itself changes nothing.
C13_RawMoveExchanges ==
    /\ RawMoved =>
          /\ PostDst.buffer_ = PreSrc.buffer_
          /\ PostDst.capacity_ = PreSrc.capacity_
          /\ heap = last.pre.heap
          /\ last.op = "RawMoveCtor" =>
                PostSrc.buffer_ = NullBlk /\ PostSrc.capacity_ = 0
          /\ last.op = "RawMoveAssign" =>
                /\ PostSrc.buffer_ = PreDst.buffer_
                /\ PostSrc.capacity_ = PreDst.capacity_
    /\ (last.op = "RawMoveAssign" /\ last.tgt = last.val) =>
          raw = last.pre.raw /\ heap = last.pre.heap

C13_Witness ==
    /\ last.op = "RawMoveAssign"
    /\ last.tgt # last.val
    /\ PreDst.capacity_ >= 1
    /\ PreSrc.capacity_ > PreDst.capacity_
    /\ PostSrc.buffer_ = PreDst.buffer_

\* C14: move assignment a = move(b) of two distinct Vectors exchanges
\* block, capacity and size between them and touches no block and no
\* element (the heap is as before, nothing is allocated or released); move
\* assignment, copy assignment and Swap of a Vector with itself leave every
\* Vector and the heap as before.
C14_MoveAssignExchangesSelfIsNoOp ==
    /\ (last.op = "MoveAssign" /\ last.tgt # last.val) =>
          /\ vec[last.tgt] = last.pre.vec[last.val]
          /\ vec[last.val] = last.pre.vec[last.tgt]
          /\ heap = last.pre.heap
          /\ last.allocs = 0
          /\ last.frees = <<>>
    /\ (last.op \in {"MoveAssign", "CopyAssign", "Swap"} /\ last.tgt = last.val) =>
          /\ vec = last.pre.vec
          /\ heap = last.pre.heap
          /\ last.allocs = 0
          /\ last.frees = <<>>

C14_Witness ==
    /\ last.op = "MoveAssign"
    /\ last.tgt # last.val
    /\ last.pre.vec[last.tgt].size_ >= 1
    /\ last.pre.vec[last.val].size_ > last.pre.vec[last.tgt].size_
    /\ last.pre.vec[last.val].capacity_ > last.pre.vec[last.tgt].capacity_
    /\ vec[last.val].buffer_ = last.pre.vec[last.tgt].buffer_

\* The blocks the Vectors own.
Owners(b) == {t \in VecIds : vec[t].buffer_ = b}

\* C15: every deallocation is of a whole block (the address is the block's
\* start) that no live Vector owns any more, every allocated block has
\* exactly one owner, and the block of every Vector is still allocated, so
\* that the owner's destructor releases it once and no earlier.
C15_BlocksReleasedOnceByOwner ==
    /\ \A i \in 1..Len(last.frees) :
          last.frees[i].off = 0 /\ ~last.frees[i].owned
    /\ \A b \in Blocks : heap[b].alloc => Cardinality(Owners(b)) = 1
    /\ \A t \in VecIds : vec[t].buffer_ # NullBlk => heap[vec[t].buffer_].alloc

\* C16: no block is released while one of its slots holds a constructed
\* element: every deallocation is of a block whose slots are all raw.
C16_NoBlockReleasedWithLiveElement ==
    \A i \in 1..Len(last.frees) : last.frees[i].live = 0

\* C17: a successful Resize(newSize) gives size newSize, keeps the first
\* min(oldSize, newSize) elements in value and order, puts a default-valued
\* element in every slot of [oldSize, newSize), and makes the capacity
\* max(oldCapacity, newSize); shrinking keeps capacity and block.
C17_ResizeSuccess ==
    (last.op = "Resize" /\ last.outcome = "ok") =>
        /\ PostVc.size_ = last.pos
        /\ \A i \in 1..Min(PreVc.size_, last.pos) : PostElems[i] = PreElems[i]
        /\ \A i \in (PreVc.size_ + 1)..last.pos : PostElems[i] = Default
        /\ PostVc.capacity_ = Max(PreVc.capacity_, last.pos)
        /\ last.pos <= PreVc.size_ =>
              /\ PostVc.buffer_ = PreVc.buffer_
              /\ PostVc.capacity_ = PreVc.capacity_
              /\ last.allocs = 0
              /\ last.frees = <<>>

C17_Witness ==
    /\ last.op = "Resize"
    /\ last.outcome = "ok"
    /\ PreVc.size_ >= 1
    /\ PreElems[1] # Default
    /\ last.pos > PreVc.capacity_
    /\ last.pos >= PreVc.size_ + 2

\* C18: when the argument of PushBack, Insert or Emplace refers to element
\* i of the same Vector, the element inserted (at the end for PushBack, at
\* the position for Insert / Emplace) has the value element i had before
\* the call, the size grows by one and the other elements keep their values
\* and order, on the in-place, the middle and the reallocating path.
C18_AliasedArgumentInsertsOldValue ==
    ( /\ last.op \in {"PushBack", "Emplace"}
      /\ IsRef(last.val)
      /\ last.outcome = "ok" ) =>
        /\ PostVc.size_ = PreVc.size_ + 1
        /\ PostElems[last.pos + 1] = PreElems[RefIndex(last.val) + 1]
        /\ PostElems = SubSeq(PreElems, 1, last.pos)
                        \o <<PreElems[RefIndex(last.val) + 1]>>
                        \o SubSeq(PreElems, last.pos + 1, PreVc.size_)

C18_Witness ==
    /\ last.op = "Emplace"
    /\ last.path = "middle"
    /\ last.outcome = "ok"
    /\ last.pos = 0
    /\ last.val = Ref(1)
    /\ PreVc.size_ = 3
    /\ PreElems[1] # PreElems[2]
    /\ PreElems[2] # PreElems[3]

\* C19: Reserve, Resize, PushBack, EmplaceBack, PopBack, Emplace / Insert,
\* Erase and copy assignment never lower the capacity of a Vector, whether
\* they succeed or fail: after each of them every Vector's capacity is at
\* least what it was before.
C19_CapacityNeverDecreases ==
    last.op \in {"Reserve", "Resize", "PushBack", "EmplaceBack", "PopBack",
                 "Emplace", "Erase", "CopyAssign"}
    => \A t \in VecIds : vec[t].capacity_ >= last.pre.vec[t].capacity_

C19_Witness ==
    /\ last.op = "CopyAssign"
    /\ last.outcome = "ok"
    /\ last.path = "inplace"
    /\ Len(PreSrcElems) >= 1
    /\ PreVc.size_ > Len(PreSrcElems)
    /\ PreVc.capacity_ > PreVc.size_
    /\ PostVc.capacity_ = PreVc.capacity_

====
